---- MODULE Spec2Model ----
(***************************************************************************)
(* BaseLearner (back-end/www/base_learner.py): checkpoint save/load with   *)
(* the "module." key-prefix fallback, the per-path logger registry, the    *)
(* unified log method and the augmentation pipeline builder.               *)
(*                                                                         *)
(* Three specifications share the state:                                   *)
(*   Spec      create_logger / log / get_transform, one call at a time     *)
(*   SpecCkpt  save / load on a learner whose logger is already set up     *)
(*   SpecConc  create_logger executed statement by statement by several    *)
(*             execution contexts, interleaved                             *)
(***************************************************************************)
EXTENDS Integers, Sequences, FiniteSets, TLC

VARIABLES
    handlers,     \* logging's registry: logger name (path) -> list of attached handlers
    logger,       \* self.logger of each learner: a logger name, or None
    image_size,   \* self.image_size of each learner: <<>> while the subclass has not set it
    nextId,       \* identity of the next handler object to be constructed
    dirs,         \* paths whose parent directory exists (check_and_create_dir)
    fs,           \* content of each checkpoint path
    out,          \* observable effects of the most recent call
    pc,           \* SpecConc: statement each context is at inside create_logger
    cur,          \* SpecConc: locals log_path / handler of the call in progress
    snap,         \* SpecConc: the part of logger.handlers[:] the for loop has left
    recent,       \* history: most recent non-None log_path each learner passed
    raced,        \* history: create_logger calls on this path have overlapped
    saved         \* history: the model the last save() wrote to each checkpoint path

vars == <<handlers, logger, image_size, nextId, dirs, fs, out, pc, cur, snap,
          recent, raced, saved>>

----------------------------------------------------------------------------
(* Bounds and input sets *)

MaxCalls == 3       \* create_logger calls that construct a handler
MaxParams == 2      \* parameters of a model

None == "None"
Learners == {"L1", "L2"}
Owners == {"L1"}            \* the learner whose save / load is called in SpecCkpt
LogPaths == {"a.log", "b.log"}
CkptPaths == {"m.pt"}
Msgs == {"hello"}
Levels == {"i", "w", "e"}
Modes == {"rgb", "flow", "gray", None}
Phases == {"train", "test", None}
Sizes == {<<>>, <<224, 224>>}
SaveValues == {1, 2}
FreshValues == {0}

(* Text is a sequence of characters, so that str.replace is computed. *)
Dot == <<".">>
W == <<"w">>
ModuleWord == <<"m", "o", "d", "u", "l", "e">>
XModuleWord == <<"x">> \o ModuleWord
ModulePrefix == ModuleWord \o Dot
(* Parameter names: a parameter of the model itself, or "<child>.<param>". *)
Names == {W, ModuleWord \o Dot \o W, XModuleWord \o Dot \o W}

----------------------------------------------------------------------------
(* Text *)

StartsWith(s, p) == Len(s) >= Len(p) /\ SubSeq(s, 1, Len(p)) = p

(* str.replace(old, new): every non-overlapping occurrence, left to right *)
RECURSIVE Replace(_, _, _)
Replace(s, old, new) ==
    IF Len(s) < Len(old) THEN s
    ELSE IF SubSeq(s, 1, Len(old)) = old
         THEN new \o Replace(SubSeq(s, Len(old) + 1, Len(s)), old, new)
         ELSE <<Head(s)>> \o Replace(Tail(s), old, new)

(* k.replace("module.", "") *)
StripKey(k) == Replace(k, ModulePrefix, <<>>)

----------------------------------------------------------------------------
(* Models and state dicts.  A state dict is an ordered list of <<key, value>> *)
(* with distinct keys; a model is its wrapper flag and its own parameters.  *)

NoneModel == [kind |-> "none"]
Mk(wrapped, params) == [kind |-> "model", wrapped |-> wrapped, params |-> params]

Keys(sd) == {sd[i][1] : i \in 1..Len(sd)}
Lookup(sd, k) == sd[CHOOSE i \in 1..Len(sd) : sd[i][1] = k][2]
AsMap(sd) == {sd[i] : i \in 1..Len(sd)}

WellFormed(ps) ==
    \A i, j \in 1..Len(ps) : i # j =>
        /\ ps[i][1] # ps[j][1]
        /\ ~StartsWith(ps[j][1], ps[i][1] \o Dot)

ParamLists(values) ==
    {ps \in UNION {[1..n -> Names \X values] : n \in 1..MaxParams} : WellFormed(ps)}

Sorted(ps) == \A i \in 1..(Len(ps) - 1) : Len(ps[i][1]) <= Len(ps[i + 1][1])

SaveModels == {Mk(w, ps) : w \in BOOLEAN, ps \in ParamLists(SaveValues)}
FreshModels == {Mk(w, ps) : w \in BOOLEAN, ps \in {q \in ParamLists(FreshValues) : Sorted(q)}}

(* model.state_dict(): the parallel wrapper prefixes every key *)
StateDict(m) ==
    IF m.wrapped THEN [i \in 1..Len(m.params) |-> <<ModulePrefix \o m.params[i][1], m.params[i][2]>>]
    ELSE m.params

(* the name a parameter of the child "module" has inside that child *)
ChildKey(k) == SubSeq(k, Len(ModulePrefix) + 1, Len(k))

HasModuleChild(m) == \E i \in 1..Len(m.params) : StartsWith(m.params[i][1], ModulePrefix)
IsModuleKey(p) == StartsWith(p[1], ModulePrefix)

(* model.module.state_dict(): the wrapped model of a wrapper, the child named *)
(* "module" of a plain model, AttributeError when there is no such module    *)
ModuleStateDict(m) ==
    IF m.wrapped THEN [raised |-> None, sd |-> m.params]
    ELSE IF HasModuleChild(m)
         THEN LET sub == SelectSeq(m.params, IsModuleKey)
              IN [raised |-> None,
                  sd |-> [i \in 1..Len(sub) |-> <<ChildKey(sub[i][1]), sub[i][2]>>]]
         ELSE [raised |-> "AttributeError", sd |-> <<>>]

(* save(), lines 66-69 *)
SavedStateDict(m) ==
    LET r == ModuleStateDict(m) IN IF r.raised = None THEN r.sd ELSE StateDict(m)

(* model.load_state_dict(sd), strict: matching keys are copied, then a key *)
(* mismatch raises                                                          *)
LoadStateDict(m, sd) ==
    LET own == StateDict(m)
        new == [i \in 1..Len(own) |->
                   <<m.params[i][1],
                     IF own[i][1] \in Keys(sd) THEN Lookup(sd, own[i][1]) ELSE m.params[i][2]>>]
    IN [ok |-> Keys(sd) = Keys(own), model |-> [m EXCEPT !.params = new]]

(* new_state_dict[k.replace("module.", "")] = v, in the checkpoint's order *)
Put(od, k, v) ==
    IF k \in Keys(od)
    THEN [i \in 1..Len(od) |-> IF od[i][1] = k THEN <<k, v>> ELSE od[i]]
    ELSE Append(od, <<k, v>>)

RECURSIVE StripAll(_, _)
StripAll(sd, acc) ==
    IF sd = <<>> THEN acc
    ELSE StripAll(Tail(sd), Put(acc, StripKey(Head(sd)[1]), Head(sd)[2]))

NewStateDict(sd) == StripAll(sd, <<>>)

----------------------------------------------------------------------------
(* Observable effects of one call *)

EmptyOut(op, l) ==
    [op |-> op, learner |-> l, path |-> None, lv |-> None, msg |-> None,
     mode |-> None, phase |-> None,
     arg |-> NoneModel, model |-> NoneModel,
     console |-> <<>>,     \* lines printed
     sent |-> <<>>,        \* calls of logger.info / warning / error
     records |-> <<>>,     \* records the handlers wrote, with the file of each
     trace |-> <<>>,       \* calls made, in order
     raised |-> None,      \* the exception that left the call, if any
     ret |-> [kind |-> "None"]]

(* logger.<level>(msg): every handler attached to the logger writes a record *)
Emit(o, name, level, msg) ==
    [o EXCEPT !.sent = Append(@, [logger |-> name, level |-> level, msg |-> msg]),
              !.records = @ \o [i \in 1..Len(handlers[name]) |->
                                  [file |-> handlers[name][i].file, level |-> level, msg |-> msg]]]

(* mutant: the file sink replaces the console, and warnings go out as info *)
DoLogConfused(o, l, msg, lv) ==
    IF logger[l] # None
    THEN Emit([o EXCEPT !.trace = Append(@, "log")], logger[l],
              IF lv = "e" THEN "ERROR" ELSE "INFO", msg)
    ELSE [o EXCEPT !.console = Append(@, msg), !.trace = Append(@, "log")]

(* log(), lines 89-97 *)
DoLog(o, l, msg, lv) ==
    LET o1 == [o EXCEPT !.console = Append(@, msg), !.trace = Append(@, "log")]
    IN IF logger[l] # None
       THEN IF lv = "i" THEN Emit(o1, logger[l], "INFO", msg)
            ELSE IF lv = "w" THEN Emit(o1, logger[l], "WARNING", msg)
            ELSE IF lv = "e" THEN Emit(o1, logger[l], "ERROR", msg)
            ELSE o1
       ELSE o1

(* the lv that log() gets when the caller passes none *)
DefaultLv == "i"

----------------------------------------------------------------------------
(* Logger registry *)

(* mutant: the handler stays attached *)
RemoveHandlerKeeps(hs, h) == hs

(* Logger.removeHandler: drops the handler if it is attached *)
RemoveHandler(hs, h) == SelectSeq(hs, LAMBDA x : x # h)

(* Logger.addHandler: attaches the handler unless it already is *)
AddHandler(hs, h) == IF \E i \in 1..Len(hs) : hs[i] = h THEN hs ELSE Append(hs, h)

(* mutant: the removal loop is missing *)
RemoveEachSkipped(hs, copy) == hs

(* for hdlr in logger.handlers[:]: logger.removeHandler(hdlr) *)
RECURSIVE RemoveEach(_, _)
RemoveEach(hs, copy) ==
    IF copy = <<>> THEN hs ELSE RemoveEach(RemoveHandler(hs, Head(copy)), Tail(copy))

NewHandler(p) == [id |-> nextId, file |-> p]

(* mutant: self.logger is assigned only while it is None *)
CreateLoggerKeepsFirst(l, p) ==
    /\ \A t \in Learners : pc[t] = "idle"
    /\ IF p = None
       THEN UNCHANGED <<handlers, logger, nextId, dirs, recent>>
       ELSE /\ nextId <= MaxCalls
            /\ dirs' = dirs \cup {p}
            /\ handlers' = [handlers EXCEPT ![p] = <<[id |-> nextId, file |-> p]>>]
            /\ logger' = [logger EXCEPT ![l] = IF @ = None THEN p ELSE @]
            /\ nextId' = nextId + 1
            /\ recent' = [recent EXCEPT ![l] = p]
    /\ out' = [EmptyOut("create_logger", l) EXCEPT !.path = p]
    /\ UNCHANGED <<image_size, fs, pc, cur, snap, raced, saved>>

(* create_logger(), lines 128-140, as one call *)
CreateLogger(l, p) ==
    /\ \A t \in Learners : pc[t] = "idle"
    /\ IF p = None
       THEN UNCHANGED <<handlers, logger, nextId, dirs, recent>>
       ELSE /\ nextId <= MaxCalls
            /\ dirs' = dirs \cup {p}
            /\ handlers' = [handlers EXCEPT
                               ![p] = AddHandler(RemoveEach(@, @), NewHandler(p))]
            /\ logger' = [logger EXCEPT ![l] = p]
            /\ nextId' = nextId + 1
            /\ recent' = [recent EXCEPT ![l] = p]
    /\ out' = [EmptyOut("create_logger", l) EXCEPT !.path = p]
    /\ UNCHANGED <<image_size, fs, pc, cur, snap, raced, saved>>

(* log(msg, lv) called by the owner of the learner *)
Log(l, msg, lv) ==
    /\ out' = DoLog([EmptyOut("log", l) EXCEPT !.msg = msg, !.lv = lv], l, msg, lv)
    /\ UNCHANGED <<handlers, logger, image_size, nextId, dirs, fs, pc, cur, snap,
                   recent, raced, saved>>

----------------------------------------------------------------------------
(* get_transform(), lines 100-125 *)

(* mutant: flow is normalized like rgb *)
ChannelsAlwaysThree(mode) == <<"r", "g", "b">>

Channels(mode) == IF mode = "rgb" THEN <<"r", "g", "b">> ELSE <<"x", "y">>
Normalize(mode) == [step |-> "Normalize", channels |-> Len(Channels(mode))]
ColorJitter(mode) == [step |-> "ColorJitter", hue |-> (mode = "rgb")]

Transform(l, mode, phase) ==
    LET o == [EmptyOut("get_transform", l) EXCEPT !.mode = mode, !.phase = phase]
        rd == [o EXCEPT !.trace = Append(@, "self.image_size")]
    IN IF mode \notin {"rgb", "flow"} THEN o
       ELSE IF image_size[l] = <<>> THEN [rd EXCEPT !.raised = "AttributeError"]
       ELSE IF phase = "train"
            THEN [rd EXCEPT !.ret =
                    [kind |-> "Compose",
                     steps |-> <<ColorJitter(mode),
                                 [step |-> "RandomResizedCrop", size |-> image_size[l]],
                                 [step |-> "RandomPerspective"],
                                 [step |-> "RandomHorizontalFlip"],
                                 [step |-> "RandomErasing"],
                                 [step |-> "RandomErasing"],
                                 Normalize(mode)>>]]
            ELSE [rd EXCEPT !.ret =
                    [kind |-> "Compose",
                     steps |-> <<[step |-> "Resize", size |-> image_size[l]],
                                 Normalize(mode)>>]]

GetTransform(l, mode, phase) ==
    /\ out' = Transform(l, mode, phase)
    /\ UNCHANGED <<handlers, logger, image_size, nextId, dirs, fs, pc, cur, snap,
                   recent, raced, saved>>

----------------------------------------------------------------------------
(* Checkpoint files *)

NoFile == [kind |-> "nofile"]
Corrupt == [kind |-> "corrupt"]
Ckpt(sd) == [kind |-> "ckpt", items |-> sd]

(* mutant: only the model is tested *)
PresentModelOnly(m, path) == m # NoneModel

(* "model is not None and <path> is not None", lines 64 and 75 *)
Present(m, path) == m # NoneModel /\ path # None

Tr(o, ev) == [o EXCEPT !.trace = Append(@, ev)]

(* save(), lines 63-71 *)
Save(l, m, path) ==
    /\ \A t \in Learners : pc[t] = "idle"
    /\ IF Present(m, path)
       THEN /\ out' = [DoLog(EmptyOut("save", l), l, "Save model weights to " \o path, DefaultLv)
                          EXCEPT !.arg = m, !.path = path, !.model = m]
            /\ dirs' = dirs \cup {path}
            /\ fs' = [fs EXCEPT ![path] = Ckpt(SavedStateDict(m))]
            /\ saved' = [saved EXCEPT ![path] = m]
       ELSE /\ out' = [EmptyOut("save", l) EXCEPT !.arg = m, !.path = path, !.model = m]
            /\ UNCHANGED <<dirs, fs, saved>>
    /\ UNCHANGED <<handlers, logger, image_size, nextId, pc, cur, snap, recent, raced>>

(* mutant: the retry is wrapped in an except of its own and retried again *)
RetryAgain(o, m, f) ==
    IF f.kind # "ckpt"
    THEN [Tr(Tr(o, "torch.load:raise"), "torch.load:raise") EXCEPT !.model = m]
    ELSE LET r == LoadStateDict(m, NewStateDict(f.items))
         IN IF r.ok
            THEN [Tr(Tr(o, "torch.load:ok"), "load_state_dict:ok") EXCEPT !.model = r.model]
            ELSE [Tr(Tr(Tr(Tr(o, "torch.load:ok"), "load_state_dict:raise"),
                        "torch.load:ok"), "load_state_dict:raise") EXCEPT !.model = r.model]

(* lines 82-86: the except branch after its two log lines *)
Retry(o, m, f) ==
    IF f.kind # "ckpt"
    THEN [Tr(o, "torch.load:raise") EXCEPT !.raised = "IOError", !.model = m]
    ELSE LET r == LoadStateDict(m, NewStateDict(f.items))
         IN IF r.ok
            THEN [Tr(Tr(o, "torch.load:ok"), "load_state_dict:ok") EXCEPT !.model = r.model]
            ELSE [Tr(Tr(o, "torch.load:ok"), "load_state_dict:raise")
                     EXCEPT !.raised = "RuntimeError", !.model = r.model]

(* mutant: the fallback announces itself once, as a warning *)
FallbackOneWarning(o, l, m, f) ==
    Retry(DoLog(o, l, "Remove 'module.' prefix from state_dict keys...", "w"), m, f)

FallbackLine1 == "Weights were from nn.DataParallel..."
FallbackLine2 == "Remove 'module.' prefix from state_dict keys..."

(* lines 79-86 *)
Fallback(o, l, m, f) ==
    Retry(DoLog(DoLog(o, l, FallbackLine1, DefaultLv), l, FallbackLine2, DefaultLv), m, f)

(* lines 76-86 *)
LoadBody(o, l, m, f) ==
    LET o1 == DoLog(o, l, "Load model weights from " \o o.path, DefaultLv)
    IN IF f.kind # "ckpt"
       THEN Fallback(Tr(o1, "torch.load:raise"), l, m, f)
       ELSE LET r == LoadStateDict(m, f.items)
            IN IF r.ok
               THEN [Tr(Tr(o1, "torch.load:ok"), "load_state_dict:ok") EXCEPT !.model = r.model]
               ELSE Fallback(Tr(Tr(o1, "torch.load:ok"), "load_state_dict:raise"), l, r.model, f)

(* load(), lines 74-86 *)
Load(l, m, path) ==
    /\ \A t \in Learners : pc[t] = "idle"
    /\ LET o == [EmptyOut("load", l) EXCEPT !.arg = m, !.path = path, !.model = m]
       IN out' = IF Present(m, path) THEN LoadBody(o, l, m, fs[path]) ELSE o
    /\ UNCHANGED <<handlers, logger, image_size, nextId, dirs, fs, pc, cur, snap,
                   recent, raced, saved>>

----------------------------------------------------------------------------
(* create_logger() statement by statement, for interleaved callers *)

NoCall == [path |-> None, handler |-> [id |-> 0, file |-> None]]

(* lines 128-136: the new handler is built and the path's logger looked up *)
CLBegin(t, p) ==
    /\ pc[t] = "idle"
    /\ IF p = None
       THEN /\ out' = [EmptyOut("create_logger", t) EXCEPT !.path = p]
            /\ UNCHANGED <<nextId, dirs, pc, cur, raced>>
       ELSE /\ nextId <= MaxCalls
            /\ dirs' = dirs \cup {p}
            /\ cur' = [cur EXCEPT ![t] = [path |-> p, handler |-> NewHandler(p)]]
            /\ nextId' = nextId + 1
            /\ pc' = [pc EXCEPT ![t] = "snapshot"]
            /\ raced' = [raced EXCEPT ![p] =
                            @ \/ \E u \in Learners \ {t} : pc[u] # "idle" /\ cur[u].path = p]
            /\ UNCHANGED out
    /\ UNCHANGED <<handlers, logger, image_size, fs, snap, recent, saved>>

(* line 137: logger.handlers[:] *)
CLSnapshot(t) ==
    /\ pc[t] = "snapshot"
    /\ snap' = [snap EXCEPT ![t] = handlers[cur[t].path]]
    /\ pc' = [pc EXCEPT ![t] = "loop"]
    /\ UNCHANGED <<handlers, logger, image_size, nextId, dirs, fs, out, cur,
                   recent, raced, saved>>

(* line 138: one iteration of the loop *)
CLRemove(t) ==
    /\ pc[t] = "loop"
    /\ snap[t] # <<>>
    /\ handlers' = [handlers EXCEPT ![cur[t].path] = RemoveHandler(@, Head(snap[t]))]
    /\ snap' = [snap EXCEPT ![t] = Tail(@)]
    /\ UNCHANGED <<logger, image_size, nextId, dirs, fs, out, pc, cur, recent, raced, saved>>

(* line 139, reached when the loop is over *)
CLAdd(t) ==
    /\ pc[t] = "loop"
    /\ snap[t] = <<>>
    /\ handlers' = [handlers EXCEPT ![cur[t].path] = AddHandler(@, cur[t].handler)]
    /\ pc' = [pc EXCEPT ![t] = "assign"]
    /\ UNCHANGED <<logger, image_size, nextId, dirs, fs, out, cur, snap, recent, raced, saved>>

(* line 140 *)
CLAssign(t) ==
    /\ pc[t] = "assign"
    /\ logger' = [logger EXCEPT ![t] = cur[t].path]
    /\ recent' = [recent EXCEPT ![t] = cur[t].path]
    /\ cur' = [cur EXCEPT ![t] = NoCall]
    /\ pc' = [pc EXCEPT ![t] = "idle"]
    /\ out' = [EmptyOut("create_logger", t) EXCEPT !.path = cur[t].path]
    /\ UNCHANGED <<handlers, image_size, nextId, dirs, fs, snap, raced, saved>>

----------------------------------------------------------------------------
(* Specifications *)

Quiet ==
    /\ pc = [t \in Learners |-> "idle"]
    /\ cur = [t \in Learners |-> NoCall]
    /\ snap = [t \in Learners |-> <<>>]
    /\ raced = [p \in LogPaths |-> FALSE]
    /\ saved = [p \in CkptPaths |-> NoneModel]
    /\ out = EmptyOut("init", None)

(* __init__, lines 35-40: no logger; image_size is the subclass's to set *)
Init ==
    /\ Quiet
    /\ handlers = [p \in LogPaths |-> <<>>]
    /\ logger = [l \in Learners |-> None]
    /\ recent = [l \in Learners |-> None]
    /\ image_size \in [Learners -> Sizes]
    /\ nextId = 1
    /\ dirs = {}
    /\ fs = [p \in CkptPaths |-> NoFile]

Next ==
    \/ \E l \in Learners, p \in LogPaths \cup {None} : CreateLogger(l, p)
    \/ \E l \in Learners, msg \in Msgs, lv \in Levels : Log(l, msg, lv)
    \/ \E l \in Learners, mode \in Modes, phase \in Phases : GetTransform(l, mode, phase)

Spec == Init /\ [][Next]_vars

(* Logger set-ups that create_logger calls leave behind *)
LoggerSetups ==
    { [logger |-> [l \in Learners |-> None],
       handlers |-> [p \in LogPaths |-> <<>>], nextId |-> 1],
      [logger |-> [l \in Learners |-> IF l = "L1" THEN "a.log" ELSE None],
       handlers |-> [p \in LogPaths |->
                        IF p = "a.log" THEN <<[id |-> 1, file |-> p]>> ELSE <<>>],
       nextId |-> 2] }

(* Checkpoints written elsewhere by torch.save(wrapper.state_dict(), path) *)
ForeignFiles == {NoFile, Corrupt} \cup {Ckpt(StateDict(m)) : m \in {x \in SaveModels : x.wrapped}}

InitCkpt ==
    /\ Quiet
    /\ \E s \in LoggerSetups :
          /\ logger = s.logger
          /\ handlers = s.handlers
          /\ nextId = s.nextId
    /\ recent = logger
    /\ image_size = [l \in Learners |-> <<>>]
    /\ fs \in [CkptPaths -> ForeignFiles]
    /\ dirs = {p \in LogPaths : handlers[p] # <<>>} \cup {p \in CkptPaths : fs[p] # NoFile}

(* Arguments of save and load: every model with every path, and the calls *)
(* with a None model, a None path or both                                  *)
Small(ms) == {m \in ms : Len(m.params) = 1}
SaveArgs ==
    (SaveModels \X CkptPaths) \cup ((Small(SaveModels) \cup {NoneModel}) \X {None})
        \cup ({NoneModel} \X CkptPaths)
LoadArgs ==
    (FreshModels \X CkptPaths) \cup ((Small(FreshModels) \cup {NoneModel}) \X {None})
        \cup ({NoneModel} \X CkptPaths)

NextCkpt ==
    \/ \E l \in Owners, a \in SaveArgs : Save(l, a[1], a[2])
    \/ \E l \in Owners, a \in LoadArgs : Load(l, a[1], a[2])

SpecCkpt == InitCkpt /\ [][NextCkpt]_vars

InitConc ==
    /\ Init
    /\ image_size = [l \in Learners |-> <<>>]

NextConc ==
    \/ \E t \in Learners, p \in LogPaths \cup {None} : CLBegin(t, p)
    \/ \E t \in Learners : CLSnapshot(t)
    \/ \E t \in Learners : CLRemove(t)
    \/ \E t \in Learners : CLAdd(t)
    \/ \E t \in Learners : CLAssign(t)
    \/ \E l \in Learners, msg \in Msgs, lv \in Levels : Log(l, msg, lv)

SpecConc == InitConc /\ [][NextConc]_vars

----------------------------------------------------------------------------
(* Properties of the logger, of log and of get_transform (Spec) *)

Configured(l) == logger[l] # None

(* C1: after any sequence of create_logger calls made one at a time, the *)
(* logger of every path that was passed has exactly one handler, and one *)
(* log call on a learner with a logger writes exactly one record, to the *)
(* file of that logger.                                                   *)
C1_OneHandlerPerPath ==
    /\ \A p \in LogPaths : p \in dirs => Len(handlers[p]) = 1
    /\ (out.op = "log" /\ Configured(out.learner)) =>
          /\ Len(out.records) = 1
          /\ out.records[1].file = logger[out.learner]

(* both learners have called create_logger with the same path, then one logs *)
C1_Witness ==
    /\ out.op = "log"
    /\ \E p \in LogPaths : \A l \in Learners : recent[l] = p
    /\ Len(out.records) = 1

C5_Severity(lv) == IF lv = "i" THEN "INFO" ELSE IF lv = "w" THEN "WARNING" ELSE "ERROR"

(* C5: log(msg, lv) prints msg once whether or not a logger is configured; *)
(* with a logger it makes exactly one logger call, with msg at the level  *)
(* of lv; without one it makes no logger call, writes no record and does  *)
(* not raise.                                                             *)
C5_LogRouting ==
    out.op = "log" =>
        /\ out.console = <<out.msg>>
        /\ out.raised = None
        /\ Configured(out.learner) =>
              out.sent = <<[logger |-> logger[out.learner],
                            level |-> C5_Severity(out.lv), msg |-> out.msg]>>
        /\ ~Configured(out.learner) => out.sent = <<>> /\ out.records = <<>>

C5_Witness ==
    /\ out.op = "log"
    /\ out.lv = "w"
    /\ Configured(out.learner)
    /\ Len(out.sent) = 1

StepNames(ret) == [i \in 1..Len(ret.steps) |-> ret.steps[i].step]

(* C6: get_transform returns no pipeline, without reading image_size, for *)
(* a mode outside rgb / flow; on a learner whose image_size is set it     *)
(* returns the seven training steps in order for phase "train" and resize *)
(* then normalization for any other phase; normalization has three        *)
(* channels for rgb and two for flow.                                     *)
C6_PipelineShape ==
    out.op = "get_transform" =>
        /\ out.mode \notin {"rgb", "flow"} =>
              out.ret.kind = "None" /\ out.trace = <<>> /\ out.raised = None
        /\ (out.mode \in {"rgb", "flow"} /\ image_size[out.learner] # <<>>) =>
              /\ out.raised = None
              /\ out.ret.kind = "Compose"
              /\ StepNames(out.ret) =
                    IF out.phase = "train"
                    THEN <<"ColorJitter", "RandomResizedCrop", "RandomPerspective",
                           "RandomHorizontalFlip", "RandomErasing", "RandomErasing",
                           "Normalize">>
                    ELSE <<"Resize", "Normalize">>
              /\ out.ret.steps[Len(out.ret.steps)].channels =
                    (IF out.mode = "rgb" THEN 3 ELSE 2)

C6_Witness ==
    /\ out.op = "get_transform"
    /\ out.mode = "flow"
    /\ out.phase = "train"
    /\ out.ret.kind = "Compose"
    /\ Len(out.ret.steps) = 7

C10_Routing ==
    /\ \A l \in Learners : logger[l] = recent[l]
    /\ \A p \in LogPaths : p \in dirs => handlers[p] # <<>>
    /\ out.op = "log" =>
          \A i \in 1..Len(out.records) : out.records[i].file = recent[out.learner]

C10_NoneIsNoOp ==
    (out'.op = "create_logger" /\ out'.path = None) =>
        (logger' = logger /\ handlers' = handlers)

(* C10: a learner's log calls go to the logger of the most recent non-None *)
(* path it passed to create_logger and to no other file; an earlier path  *)
(* keeps its handler in the registry; create_logger(None) changes neither *)
(* the learner's handle nor the registry.                                 *)
C10_MostRecentPath == []C10_Routing /\ [][C10_NoneIsNoOp]_vars

(* a learner that moved from a.log to b.log logs: a.log keeps its handler *)
C10_Witness ==
    /\ out.op = "log"
    /\ logger[out.learner] = "b.log"
    /\ \A l \in Learners \ {out.learner} : recent[l] = None
    /\ handlers["a.log"] # <<>>
    /\ out.records # <<>>

----------------------------------------------------------------------------
(* Properties of save and load (SpecCkpt) *)

IsLoad == out.op = "load" /\ out.arg # NoneModel /\ out.path # None
NameSet(m) == Keys(m.params)
Calls(o) == SelectSeq(o.trace, LAMBDA e : e # "log")
Failed(e) == e \in {"torch.load:raise", "load_state_dict:raise"}
FellBack == \E i \in 1..Len(out.trace) : Failed(out.trace[i])

(* C2: save(model, path) then load(fresh, path), fresh an unwrapped model *)
(* with the parameter names of the saved model's underlying parameters,   *)
(* leaves fresh with exactly the saved names and values.                  *)
C2_RoundTrip ==
    (/\ IsLoad
     /\ saved[out.path] # NoneModel
     /\ ~out.arg.wrapped
     /\ NameSet(out.arg) = NameSet(saved[out.path])) =>
        /\ out.raised = None
        /\ AsMap(out.model.params) = AsMap(saved[out.path].params)

(* C3: loading, into an unwrapped model, a checkpoint whose keys are the  *)
(* model's parameter names each prefixed with "module." succeeds and      *)
(* leaves every parameter with the checkpoint's value.                    *)
C3_PrefixFallback ==
    (/\ IsLoad
     /\ ~out.arg.wrapped
     /\ fs[out.path].kind = "ckpt"
     /\ Keys(fs[out.path].items) = {ModulePrefix \o k : k \in NameSet(out.arg)}) =>
        /\ out.raised = None
        /\ \A k \in NameSet(out.arg) :
              Lookup(out.model.params, k) = Lookup(fs[out.path].items, ModulePrefix \o k)

IsSkipped == out.op \in {"save", "load"} /\ (out.arg = NoneModel \/ out.path = None)

C4_Silent ==
    IsSkipped =>
        /\ out.console = <<>>
        /\ out.sent = <<>>
        /\ out.records = <<>>
        /\ out.trace = <<>>
        /\ out.raised = None
        /\ out.model = out.arg

C4_Frame == IsSkipped' => (dirs' = dirs /\ fs' = fs /\ handlers' = handlers)

(* C4: save and load with a None model, a None path or both print        *)
(* nothing, log nothing, create no directory, read and write no file,    *)
(* leave the model as it was and raise nothing.                          *)
C4_NoOpOnNone == []C4_Silent /\ [][C4_Frame]_vars

(* a load with a model but no path, on a learner that has a logger *)
C4_Witness ==
    /\ out.op = "load"
    /\ out.arg # NoneModel
    /\ out.path = None
    /\ Configured(out.learner)

(* C7: load makes one direct attempt; a direct attempt that succeeds is  *)
(* the only one; one that fails, at reading the file or at the model, is *)
(* followed by exactly one retry, whose failure leaves load as an        *)
(* exception; there is no third attempt.                                 *)
C7_OneRetry ==
    IsLoad =>
        LET c == Calls(out)
        IN \/ c = <<"torch.load:ok", "load_state_dict:ok">> /\ out.raised = None
           \/ /\ Len(c) >= 1
              /\ c[1] = "torch.load:raise" \/ (Len(c) >= 2 /\ c[2] = "load_state_dict:raise")
              /\ LET first == IF c[1] = "torch.load:raise" THEN 1 ELSE 2
                     retry == SubSeq(c, first + 1, Len(c))
                 IN \/ retry = <<"torch.load:ok", "load_state_dict:ok">> /\ out.raised = None
                    \/ retry = <<"torch.load:ok", "load_state_dict:raise">> /\ out.raised # None
                    \/ retry = <<"torch.load:raise">> /\ out.raised # None

(* both attempts fail at the model: the second failure leaves load *)
C7_Witness ==
    /\ IsLoad
    /\ out.raised = "RuntimeError"
    /\ Len(Calls(out)) = 4

FallbackLines == {FallbackLine1, FallbackLine2}
LinesAbout(o) == SelectSeq(o.console, LAMBDA m : m \in FallbackLines)
SentAbout(o) == SelectSeq(o.sent, LAMBDA r : r.msg \in FallbackLines)
RecordsAbout(o) == SelectSeq(o.records, LAMBDA r : r.msg \in FallbackLines)
FirstFailure(o) == CHOOSE i \in 1..Len(o.trace) : Failed(o.trace[i]) /\ \A j \in 1..(i - 1) : ~Failed(o.trace[j])

C8_TwoLines(level) ==
    IsLoad =>
        /\ ~FellBack => LinesAbout(out) = <<>> /\ SentAbout(out) = <<>>
        /\ FellBack =>
              /\ LinesAbout(out) = <<FallbackLine1, FallbackLine2>>
              /\ LET i == FirstFailure(out)
                 IN /\ Len(out.trace) >= i + 3
                    /\ out.trace[i + 1] = "log"
                    /\ out.trace[i + 2] = "log"
                    /\ out.trace[i + 3] \in {"torch.load:ok", "torch.load:raise"}
              /\ Configured(out.learner) =>
                    /\ Len(SentAbout(out)) = 2
                    /\ Len(RecordsAbout(out)) = 2
                    /\ \A j \in 1..2 :
                          /\ SentAbout(out)[j].level = level
                          /\ RecordsAbout(out)[j].level = level

(* C8 as stated: whenever load falls back, exactly two lines about the   *)
(* fallback are logged before the retry, at warning severity, and none   *)
(* when the direct load succeeds.                                        *)
C8_WarningLines == C8_TwoLines("WARNING")

(* C8 amended: whenever load falls back, exactly two lines about the     *)
(* fallback are logged before the retry, at info severity (INFO records  *)
(* in the file of a configured logger), and none when the direct load    *)
(* succeeds.                                                             *)
C8_InfoLines == C8_TwoLines("INFO")

(* a fallback that succeeds on a learner that has a logger *)
C8_Witness ==
    /\ IsLoad
    /\ FellBack
    /\ out.raised = None
    /\ Configured(out.learner)
    /\ Len(out.sent) = 3

----------------------------------------------------------------------------
(* Interleaved create_logger calls (SpecConc) *)

(* C9: a logger gets a second handler, and a log call a duplicate record, *)
(* only when create_logger calls with that same path have overlapped;     *)
(* calls that do not overlap, or that pass different paths, leave at most *)
(* one handler per logger.  The witness is the state the race reaches.    *)
C9_DuplicateOnlyByRace ==
    /\ \A p \in LogPaths : Len(handlers[p]) >= 2 => raced[p]
    /\ \A p \in LogPaths : Len(handlers[p]) <= Cardinality(Learners)
    /\ (out.op = "log" /\ Configured(out.learner) /\ ~raced[logger[out.learner]]) =>
          Len(out.records) <= 1

(* both calls are over, the logger holds two handlers and one log call *)
(* has written its record twice                                         *)
C9_Witness ==
    /\ \A t \in Learners : pc[t] = "idle"
    /\ out.op = "log"
    /\ Len(out.sent) = 1
    /\ Len(out.records) = 2
    /\ Len(handlers[logger[out.learner]]) = 2

====
